---- MODULE Spec2Model ----
(***************************************************************************)
(* The interperf stack machines: nine C programs that interpret the same   *)
(* recursive Fibonacci function with different dispatch strategies.        *)
(*                                                                         *)
(* One behaviour of the model is one benchmark session: the nine programs  *)
(* are started one after the other on the same argument (a fresh process, *)
(* hence a zeroed static stack, for each), and inside a process execute   *)
(* may be called again on the stack the previous call left behind.        *)
(*                                                                         *)
(* Pointers are word addresses: stack + i is StackBase + i, fib_code + i  *)
(* is CodeBase + i, NULL is 0.  word_t is 64 bits wide in the source; TLC *)
(* has 32-bit integers, so the model keeps the two's-complement layout at *)
(* WordBits bits.                                                          *)
(***************************************************************************)
EXTENDS Integers, Sequences, FiniteSets, TLC

\* ------------------------------------------------------------------ bounds
WordBits == 16
MaxArg == 3
DeepArg == 400

\* ------------------------------------------------------- program constants
STACK_SIZE == 1024
NULL == 0
StackBase == 4096
CodeBase == 8192
HandlerBase == 12288

LIT == 0
LOAD == 1
CALL == 2
PRIM == 3
JT == 4
JMP == 5
RET == 6
CONST_0 == 7
CONST_1 == 8
CONST_2 == 9
SUB1 == 10
OPCODE_COUNT == 7

\* ------------------------------------------------------------------- words
WordMod == 2 ^ WordBits
\* conversion of a C integer to word_t (uint64_t)
ToWord(x) == x % WordMod
\* conversion of a word_t to int64_t
ToSigned(w) == IF w >= WordMod \div 2 THEN w - WordMod ELSE w
\* the range of int64_t
MinInt == 0 - WordMod \div 2
MaxInt == WordMod \div 2 - 1
Representable(x) == x >= MinInt /\ x <= MaxInt

\* ---------------------------------------------------------------- variants
Variants ==
    << "wordcode", "wordcode2", "wordcode3", "handlercode2", "directthreaded",
       "directthreaded2", "directthreaded3", "directthreaded4", "comboinstructions" >>
VariantSet == { Variants[i] : i \in 1..Len(Variants) }
IndexOf(v) == CHOOSE i \in 1..Len(Variants) : Variants[i] = v

\* dispatch by a switch over opcode tags
SwitchBased == { "wordcode", "wordcode2", "wordcode3" }
\* CALL realised by a recursive call of execute
NativeRecursive == { "wordcode2", "wordcode3" }
\* CALL copies the arguments into the callee's locals
ArgCopying == { "wordcode2", "wordcode3", "handlercode2", "directthreaded", "directthreaded2" }
\* arguments addressed below bp, not copied
NoCopy == { "directthreaded3", "directthreaded4", "comboinstructions" }
FlatLoop == VariantSet \ NativeRecursive

\* number of control words push_frame stores
ControlWords(v) == IF v \in SwitchBased THEN 2 ELSE 3

\* the opcode word of instruction op in variant v: the enum value, or the
\* address of the handler (function or label)
OP(v, op) == IF v \in SwitchBased THEN op ELSE HandlerBase + op

\* the handlers a threaded variant defines
Handlers(v) ==
    IF v = "comboinstructions" THEN LIT..SUB1
    ELSE IF v = "directthreaded4" THEN LIT..CONST_2
    ELSE LIT..RET

\* the instruction an opcode word selects, -1 when it selects none
OpOf(v, w) ==
    IF v \in SwitchBased
    THEN IF w < OPCODE_COUNT THEN w ELSE -1
    ELSE IF (w - HandlerBase) \in Handlers(v) THEN w - HandlerBase ELSE -1

\* ---------------------------------------------------------------- programs
fib_code_wordcode(v) ==
    << OP(v, LOAD), 0,
       OP(v, LIT), 0,
       OP(v, PRIM), 0,
       OP(v, JT), 22,
       OP(v, LOAD), 0,
       OP(v, LIT), 1,
       OP(v, PRIM), 1,
       OP(v, CALL), 0,
       OP(v, LOAD), 0,
       OP(v, LIT), 0,
       OP(v, PRIM), 1,
       OP(v, CALL), 0,
       OP(v, PRIM), 2,
       OP(v, JMP), 4,
       OP(v, LIT), 1,
       OP(v, RET) >>

\* mutant: the conditional jump lands on the operand of LIT 1
fib_code_argc_jump_into_operand(v, arg) ==
    << OP(v, LOAD), ToWord(arg),
       OP(v, LIT), 0,
       OP(v, PRIM), 0,
       OP(v, JT), 25,
       OP(v, LOAD), ToWord(arg),
       OP(v, LIT), 1,
       OP(v, PRIM), 1,
       OP(v, CALL), 0, 1,
       OP(v, LOAD), ToWord(arg),
       OP(v, LIT), 0,
       OP(v, PRIM), 1,
       OP(v, CALL), 0, 1,
       OP(v, PRIM), 2,
       OP(v, JMP), 4,
       OP(v, LIT), 1,
       OP(v, RET) >>

\* wordcode2, wordcode3, handlercode2, directthreaded, directthreaded2 (arg = 0)
\* and directthreaded3 (arg = -1)
fib_code_argc(v, arg) ==
    << OP(v, LOAD), ToWord(arg),
       OP(v, LIT), 0,
       OP(v, PRIM), 0,
       OP(v, JT), 24,
       OP(v, LOAD), ToWord(arg),
       OP(v, LIT), 1,
       OP(v, PRIM), 1,
       OP(v, CALL), 0, 1,
       OP(v, LOAD), ToWord(arg),
       OP(v, LIT), 0,
       OP(v, PRIM), 1,
       OP(v, CALL), 0, 1,
       OP(v, PRIM), 2,
       OP(v, JMP), 4,
       OP(v, LIT), 1,
       OP(v, RET) >>

fib_code_directthreaded4(v) ==
    << OP(v, LOAD), ToWord(-1),
       OP(v, CONST_2),
       OP(v, PRIM), 0,
       OP(v, JT), 22,
       OP(v, LOAD), ToWord(-1),
       OP(v, CONST_1),
       OP(v, PRIM), 1,
       OP(v, CALL), 0, 1,
       OP(v, LOAD), ToWord(-1),
       OP(v, CONST_2),
       OP(v, PRIM), 1,
       OP(v, CALL), 0, 1,
       OP(v, PRIM), 2,
       OP(v, JMP), 3,
       OP(v, CONST_1),
       OP(v, RET) >>

\* mutant: the fused program keeps the jump offsets of the unfused one
fib_code_comboinstructions_stale_offsets(v) ==
    << OP(v, LOAD), ToWord(-1),
       OP(v, CONST_2),
       OP(v, PRIM), 0,
       OP(v, JT), 22,
       OP(v, LOAD), ToWord(-1),
       OP(v, SUB1),
       OP(v, CALL), 0, 1,
       OP(v, LOAD), ToWord(-1),
       OP(v, SUB1),
       OP(v, SUB1),
       OP(v, CALL), 0, 1,
       OP(v, PRIM), 2,
       OP(v, JMP), 3,
       OP(v, CONST_1),
       OP(v, RET) >>

fib_code_comboinstructions(v) ==
    << OP(v, LOAD), ToWord(-1),
       OP(v, CONST_2),
       OP(v, PRIM), 0,
       OP(v, JT), 19,
       OP(v, LOAD), ToWord(-1),
       OP(v, SUB1),
       OP(v, CALL), 0, 1,
       OP(v, LOAD), ToWord(-1),
       OP(v, SUB1),
       OP(v, SUB1),
       OP(v, CALL), 0, 1,
       OP(v, PRIM), 2,
       OP(v, JMP), 3,
       OP(v, CONST_1),
       OP(v, RET) >>

\* the code vector of variant v
fib_code(v) ==
    IF v = "wordcode" THEN fib_code_wordcode(v)
    ELSE IF v = "comboinstructions" THEN fib_code_comboinstructions(v)
    ELSE IF v = "directthreaded4" THEN fib_code_directthreaded4(v)
    ELSE IF v = "directthreaded3" THEN fib_code_argc(v, -1)
    ELSE fib_code_argc(v, 0)

\* mutant: every function reserves one local
frame_size_always_one(v) == 1

frame_size_none(v) == 0

\* functions[0].frame_size
frame_size(v) == IF v \in NoCopy THEN 0 ELSE 1

\* static word_t literals[] = { 2, 1 }
literals_init == << 2, 1 >>

\* prim_handlers[]: lessThan, subtract, add
PRIM_COUNT == 3
FUNCTION_COUNT == 1

\* number of words an instruction occupies (opcode and operands)
Width(v, op) ==
    IF op \in {RET, CONST_0, CONST_1, CONST_2, SUB1} THEN 1
    ELSE IF op = CALL /\ v # "wordcode" THEN 3
    ELSE 2

\* indices (0-based) of the opcode words of a code vector, in order
RECURSIVE OpcodesFrom(_, _, _)
OpcodesFrom(v, prog, i) ==
    IF i >= Len(prog) THEN << >>
    ELSE LET op == OpOf(v, prog[i + 1])
         IN  << i >> \o OpcodesFrom(v, prog, i + (IF op = -1 THEN 1 ELSE Width(v, op)))
OpcodeSeq(v) == OpcodesFrom(v, fib_code(v), 0)
OpcodeIndices(v) == { OpcodeSeq(v)[k] : k \in 1..Len(OpcodeSeq(v)) }

\* ------------------------------------------------------ malformed programs
\* A malformation replaces one word of the k-th instruction: its opcode word
\* by a word that is no opcode, or (PRIM, CALL, LIT) its table index by the
\* first index outside the table.
MaxMal == 8
LITERAL_COUNT == 2
NoMal == [kind |-> "none", k |-> 0]
Malformations == [kind : {"opcode", "operand"}, k : 1..MaxMal]

\* A variation of the sample program has the operand of its k-th LOAD
\* replaced by another offset.
MaxLoadOffset == 3
LoadOffsets == (0 - MaxLoadOffset)..MaxLoadOffset

\* indices of the LOAD instructions of the code vector, in order
LoadSeq(v) ==
    LET IsLoad(i) == OpOf(v, fib_code(v)[i + 1]) = LOAD
    IN  SelectSeq(OpcodeSeq(v), IsLoad)

LoadVariations(v) == [kind : {"load"}, k : 1..Len(LoadSeq(v)), off : LoadOffsets]

Corrupt(v, mal) ==
    LET prog == fib_code(v)
        ops == OpcodeSeq(v)
    IN  IF mal.kind = "load"
        THEN [prog EXCEPT ![LoadSeq(v)[mal.k] + 2] = ToWord(mal.off)]
        ELSE
        IF mal.kind = "none" \/ mal.k > Len(ops) THEN prog
        ELSE LET i == ops[mal.k]
                 op == OpOf(v, prog[i + 1])
             IN  IF mal.kind = "opcode" THEN [prog EXCEPT ![i + 1] = OPCODE_COUNT]
                 ELSE IF op = PRIM THEN [prog EXCEPT ![i + 2] = PRIM_COUNT]
                 ELSE IF op = CALL THEN [prog EXCEPT ![i + 2] = FUNCTION_COUNT]
                 ELSE IF op = LIT THEN [prog EXCEPT ![i + 2] = LITERAL_COUNT]
                 ELSE prog

\* ------------------------------------------------------- the fusion pass
\* The preprocessing stage the header of comboinstructions.c describes: it
\* replaces 'CONST_1; PRIM subtract' by SUB1 and 'CONST_2; PRIM subtract' by
\* 'SUB1; SUB1', and recomputes the offset of every jump.  Programs are code
\* vectors in the encoding of comboinstructions.c.
FuseVariant == "comboinstructions"

\* indices of the opcode words of prog
Starts(prog) ==
    LET s == OpcodesFrom(FuseVariant, prog, 0) IN { s[k] : k \in 1..Len(s) }

IsJump(prog, i) ==
    /\ i + 2 <= Len(prog)
    /\ OpOf(FuseVariant, prog[i + 1]) \in {JT, JMP}

\* index a jump at i continues at when taken
JumpTarget(prog, i) == i + ToSigned(prog[i + 2])

Targets(prog) == { JumpTarget(prog, i) : i \in { j \in Starts(prog) : IsJump(prog, j) } }

\* every jump lands on an instruction or right after the last one
WellFormed(prog) == Targets(prog) \subseteq (Starts(prog) \cup {Len(prog)})

\* the pattern table: a constant push followed by PRIM subtract, which no
\* jump enters in the middle
Fusible(prog, i) ==
    /\ i + 3 <= Len(prog)
    /\ prog[i + 1] \in {OP(FuseVariant, CONST_1), OP(FuseVariant, CONST_2)}
    /\ prog[i + 2] = OP(FuseVariant, PRIM)
    /\ prog[i + 3] = 1
    /\ (i + 1) \notin Targets(prog)

Replacement(prog, i) ==
    IF prog[i + 1] = OP(FuseVariant, CONST_1)
    THEN << OP(FuseVariant, SUB1) >>
    ELSE << OP(FuseVariant, SUB1), OP(FuseVariant, SUB1) >>

\* the instructions of the rewritten program, each with the index (at) of
\* the instruction of prog it comes from; at most budget patterns are rewritten
RECURSIVE FusePieces(_, _, _)
FusePieces(prog, i, budget) ==
    IF i >= Len(prog) THEN << >>
    ELSE IF budget > 0 /\ Fusible(prog, i)
    THEN << [at |-> i, words |-> Replacement(prog, i)] >>
             \o FusePieces(prog, i + 3, budget - 1)
    ELSE LET op == OpOf(FuseVariant, prog[i + 1])
             w == IF op = -1 THEN 1 ELSE Width(FuseVariant, op)
             last == IF i + w > Len(prog) THEN Len(prog) ELSE i + w
         IN  << [at |-> i, words |-> SubSeq(prog, i + 1, last)] >>
                 \o FusePieces(prog, last, budget)

\* index in the rewritten program of what was at index t of prog
RECURSIVE NewIndexFrom(_, _, _)
NewIndexFrom(pieces, k, t) ==
    IF k > Len(pieces) \/ pieces[k].at >= t THEN 0
    ELSE Len(pieces[k].words) + NewIndexFrom(pieces, k + 1, t)
NewIndex(pieces, t) == NewIndexFrom(pieces, 1, t)

\* the words of piece k, a jump with its offset recomputed
Relocated(prog, pieces, k) ==
    LET p == pieces[k]
    IN  IF IsJump(prog, p.at) /\ Len(p.words) = 2
        THEN << p.words[1],
                ToWord(NewIndex(pieces, JumpTarget(prog, p.at)) - NewIndex(pieces, p.at)) >>
        ELSE p.words

RECURSIVE Assemble(_, _, _)
Assemble(prog, pieces, k) ==
    IF k > Len(pieces) THEN << >>
    ELSE Relocated(prog, pieces, k) \o Assemble(prog, pieces, k + 1)

FuseWith(prog, budget) == Assemble(prog, FusePieces(prog, 0, budget), 1)

\* mutant: the pass stops rewriting after its first match
fuse_first_match_only(prog) == FuseWith(prog, 1)

\* fuse(program) -> program'
fuse(prog) == FuseWith(prog, Len(prog))

\* programs the pass is tried on: the two programs of the repository and
\* every well-formed sequence of at most MaxFuseLen of these instructions
MaxFuseLen == 3
FuseAlphabet ==
    { << OP(FuseVariant, LOAD), ToWord(-1) >>,
      << OP(FuseVariant, CONST_1) >>,
      << OP(FuseVariant, CONST_2) >>,
      << OP(FuseVariant, PRIM), 1 >>,
      << OP(FuseVariant, PRIM), 2 >>,
      << OP(FuseVariant, SUB1) >>,
      << OP(FuseVariant, JT), 3 >>,
      << OP(FuseVariant, JMP), 4 >> }

RECURSIVE Flatten(_)
Flatten(s) == IF s = << >> THEN << >> ELSE Head(s) \o Flatten(Tail(s))

FuseInputs ==
    {fib_code("directthreaded4"), fib_code("comboinstructions")}
        \cup { p \in { Flatten(s) : s \in UNION { [1..n -> FuseAlphabet] : n \in 1..MaxFuseLen } } :
                 WellFormed(p) }

\* ------------------------------------------------------------------- state
VARIABLES
    mal,        \* the malformation of the session's programs (NoMal: none)
    variant,    \* the program running (one of Variants)
    code,       \* its code vector, a sequence of words
    literals,   \* its literal table
    arg0,       \* the argument of the session
    arg,        \* the argument of the current execute call
    run,        \* the current execute call of this process: 1 first, 2 other, 3 repeat
    ip, sp, bp, \* the registers, as addresses
    stack,      \* static word_t stack[STACK_SIZE]: the words up to the highest one
                \* written so far; the words above it are zero, as the loader left them
    cstack,     \* native stack: argc of each active execute_call (wordcode2, wordcode3)
    status,     \* "running", "done", "aborted", "ub", "crashed", "garbage"
    fault,      \* what went wrong in the current call, "none" if nothing
    tainted,    \* history: some call of this process left defined behaviour
    result,     \* the word execute returned
    calls,      \* history: one record per CALL not yet returned from
    counters,   \* history of the current call: CALLs and RETs executed, highest sp
    results,    \* history: result of the first call of each program, -1 if none
    outcomes    \* history: final status of the first call of each program

vars == << mal, variant, code, literals, arg0, arg, run, ip, sp, bp, stack, cstack,
           status, fault, tainted, result, calls, counters, results, outcomes >>

\* --------------------------------------------------------------- addresses
InStack(a) == a >= StackBase /\ a < StackBase + STACK_SIZE
InCode(a) == a >= CodeBase /\ a < CodeBase + Len(code)
\* stack occupancy: sp minus the stack base
SpOff == sp - StackBase
BpOff == bp - StackBase
IpOff == ip - CodeBase

\* ------------------------------------------ the interpreter as a record
\* The handlers below are functions from machine to machine; a machine whose
\* fault is set has left defined behaviour and is not changed further.
M == [ip |-> ip, sp |-> sp, bp |-> bp, stack |-> stack, fault |-> "none"]

Fault(m, f) == IF m.fault = "none" THEN [m EXCEPT !.fault = f] ELSE m

\* *(m.ip): the word fetch would return
operand(m) == IF InCode(m.ip) THEN code[m.ip - CodeBase + 1] ELSE 0

\* Fetch the next word from the code vector: *(interp->ip)++
fetch(m) ==
    IF m.fault # "none" THEN m
    ELSE IF InCode(m.ip) THEN [m EXCEPT !.ip = m.ip + 1]
    ELSE [m EXCEPT !.fault = "fetch"]

\* stack[i] of a stack array kept as its written prefix
Cell(stk, i) == IF i < Len(stk) THEN stk[i + 1] ELSE 0
\* the array after stack[i] = w
Store(stk, i, w) ==
    IF i < Len(stk) THEN [stk EXCEPT ![i + 1] = w]
    ELSE stk \o [k \in 1..(i - Len(stk)) |-> 0] \o << w >>

\* the word at address a
peek(m, a) == IF InStack(a) THEN Cell(m.stack, a - StackBase) ELSE 0

\* *(interp->sp)++ = value
push(m, value) ==
    IF m.fault # "none" THEN m
    ELSE IF InStack(m.sp)
         THEN [m EXCEPT !.stack = Store(@, m.sp - StackBase, value), !.sp = m.sp + 1]
         ELSE [m EXCEPT !.sp = m.sp + 1,
                        !.fault = IF m.sp < StackBase THEN "underflow" ELSE "overflow"]

\* the word pop would return: *(sp - 1)
top(m) == peek(m, m.sp - 1)

\* *--(interp->sp)
pop(m) ==
    IF m.fault # "none" THEN m
    ELSE IF InStack(m.sp - 1) THEN [m EXCEPT !.sp = m.sp - 1]
    ELSE [m EXCEPT !.sp = m.sp - 1,
                   !.fault = IF m.sp - 1 < StackBase THEN "underflow" ELSE "overflow"]

\* mutant: the locals are still taken to start two words above bp
local_two_control_words(v, m, index) == m.bp + 2 + index

\* address of the local var at the specified index in the current frame
\* (wordcode .. directthreaded2): bp + 2 + index or bp + 3 + index
local(v, m, index) == m.bp + ControlWords(v) + index

\* push the word at address a
load(m, a) == IF InStack(a) THEN push(m, peek(m, a)) ELSE Fault(m, "load")

\* mutant: bp is moved before it is saved
push_frame_saves_new_bp(v, m, args_to_pop_later) ==
    LET m1 == push([m EXCEPT !.bp = m.sp], m.sp)
        m2 == push(m1, m.ip)
    IN  IF ControlWords(v) = 2 THEN m2 ELSE push(m2, args_to_pop_later)

\* mutant: the argument count is never stored
push_frame_without_argc(v, m, args_to_pop_later) ==
    push(push([m EXCEPT !.bp = m.sp], m.bp), m.ip)

push_frame(v, m, args_to_pop_later) ==
    LET m1 == push([m EXCEPT !.bp = m.sp], m.bp)
        m2 == push(m1, m.ip)
    IN  IF ControlWords(v) = 2 THEN m2 ELSE push(m2, args_to_pop_later)

\* mutant: the frame is popped but the arguments stay on the stack
pop_frame_keeps_args(v, m) ==
    LET m1 == [m EXCEPT !.sp = m.bp + ControlWords(v)]
        m2 == IF ControlWords(v) = 2 THEN m1 ELSE pop(m1)
        m3 == [pop(m2) EXCEPT !.ip = top(m2)]
    IN  [pop(m3) EXCEPT !.bp = top(m3)]

\* mutant: the control words are popped from wherever sp is
pop_frame_without_reset(v, m) ==
    IF ControlWords(v) = 2
    THEN LET m2 == [pop(m) EXCEPT !.ip = top(m)]
         IN  [pop(m2) EXCEPT !.bp = top(m2)]
    ELSE LET args_to_pop == top(m)
             m2 == pop(m)
             m3 == [pop(m2) EXCEPT !.ip = top(m2)]
             m4 == [pop(m3) EXCEPT !.bp = top(m3)]
         IN  [m4 EXCEPT !.sp = m4.sp - args_to_pop]

\* sp = bp + 2 (or 3); pop the control words; discard the arguments
pop_frame(v, m) ==
    IF ControlWords(v) = 2
    THEN LET m1 == [m EXCEPT !.sp = m.bp + 2]
             m2 == [pop(m1) EXCEPT !.ip = top(m1)]
         IN  [pop(m2) EXCEPT !.bp = top(m2)]
    ELSE LET m1 == [m EXCEPT !.sp = m.bp + 3]
             args_to_pop == top(m1)
             m2 == pop(m1)
             m3 == [pop(m2) EXCEPT !.ip = top(m2)]
             m4 == [pop(m3) EXCEPT !.bp = top(m3)]
         IN  [m4 EXCEPT !.sp = m4.sp - args_to_pop]

\* mutant: the arguments are moved, the source words are cleared
RECURSIVE memcpy_clears_source(_, _, _, _)
memcpy_clears_source(m, dst, src, n) ==
    IF m.fault # "none" \/ n = 0 THEN m
    ELSE IF ~InStack(src) THEN Fault(m, IF src < StackBase THEN "underflow" ELSE "overflow")
    ELSE IF ~InStack(dst) THEN Fault(m, IF dst < StackBase THEN "underflow" ELSE "overflow")
    ELSE memcpy_clears_source(
            [m EXCEPT !.stack = Store(Store(@, dst - StackBase, peek(m, src)),
                                      src - StackBase, 0)],
            dst + 1, src + 1, n - 1)

\* mutant: nothing is copied
memcpy_copies_nothing(m, dst, src, n) == m

\* memcpy(dst, src, n * sizeof(word_t)), word by word
RECURSIVE memcpy(_, _, _, _)
memcpy(m, dst, src, n) ==
    IF m.fault # "none" \/ n = 0 THEN m
    ELSE IF ~InStack(src) THEN Fault(m, IF src < StackBase THEN "underflow" ELSE "overflow")
    ELSE IF ~InStack(dst) THEN Fault(m, IF dst < StackBase THEN "underflow" ELSE "overflow")
    ELSE memcpy([m EXCEPT !.stack = Store(@, dst - StackBase, peek(m, src))],
                dst + 1, src + 1, n - 1)

\* -------------------------------------------------------------- primitives
\* int64_t result = x; push(result): x is computed in int64_t, so a result
\* outside its range is a signed overflow, which the C standard leaves
\* undefined; the machine kept with the fault is the one a wrapping build
\* goes on with
Arith(m, x) ==
    IF Representable(x) THEN push(m, ToWord(x))
    ELSE Fault(push(m, ToWord(x)), "arith")

\* mutant: the comparison is not strict
lessThan_or_equal(m) ==
    LET rhs == ToSigned(top(m))
        m1 == pop(m)
        lhs == ToSigned(top(m1))
        m2 == pop(m1)
    IN  push(m2, IF lhs <= rhs THEN 1 ELSE 0)

\* mutant: the word popped first is taken as the left operand
lessThan_swapped(m) ==
    LET lhs == ToSigned(top(m))
        m1 == pop(m)
        rhs == ToSigned(top(m1))
        m2 == pop(m1)
    IN  push(m2, IF lhs < rhs THEN 1 ELSE 0)

lessThan(m) ==
    LET rhs == ToSigned(top(m))
        m1 == pop(m)
        lhs == ToSigned(top(m1))
        m2 == pop(m1)
    IN  push(m2, IF lhs < rhs THEN 1 ELSE 0)

\* mutant: the operands are taken in the wrong order
subtract_swapped(m) ==
    LET rhs == ToSigned(top(m))
        m1 == pop(m)
        lhs == ToSigned(top(m1))
        m2 == pop(m1)
    IN  Arith(m2, rhs - lhs)

subtract(m) ==
    LET rhs == ToSigned(top(m))
        m1 == pop(m)
        lhs == ToSigned(top(m1))
        m2 == pop(m1)
    IN  Arith(m2, lhs - rhs)

add(m) ==
    LET rhs == ToSigned(top(m))
        m1 == pop(m)
        lhs == ToSigned(top(m1))
        m2 == pop(m1)
    IN  Arith(m2, lhs + rhs)

\* prim_handlers[word](interp)
prim_handlers(m, word) ==
    IF word = 0 THEN lessThan(m)
    ELSE IF word = 1 THEN subtract(m)
    ELSE IF word = 2 THEN add(m)
    ELSE Fault(m, "primitive")

\* ---------------------------------------------------- instruction handlers
\* Each takes the machine after the opcode word was fetched.

execute_lit(m) ==
    LET word == operand(m)
        m1 == fetch(m)
    IN  IF word < LITERAL_COUNT THEN push(m1, literals[word + 1]) ELSE Fault(m1, "literal")

CONST(m, n) == push(m, n)

\* mutant: the combo instruction subtracts 2
SUB1_by_two(m) ==
    IF InStack(m.sp - 1)
    THEN LET x == ToSigned(top(m)) - 2
             m1 == [m EXCEPT !.stack = Store(@, m.sp - 1 - StackBase, ToWord(x))]
         IN  IF Representable(x) THEN m1 ELSE Fault(m1, "arith")
    ELSE Fault(m, "underflow")

\* *((int64_t *)(sp - 1)) -= 1
SUB1_handler(m) ==
    IF InStack(m.sp - 1)
    THEN LET x == ToSigned(top(m)) - 1
             m1 == [m EXCEPT !.stack = Store(@, m.sp - 1 - StackBase, ToWord(x))]
         IN  IF Representable(x) THEN m1 ELSE Fault(m1, "arith")
    ELSE Fault(m, "underflow")

\* mutant: every LOAD addresses the locals above the control words
execute_load_locals_only(v, m) ==
    LET word == operand(m)
        m1 == fetch(m)
    IN  load(m1, m1.bp + 3 + ToSigned(word))

execute_load(v, m) ==
    LET word == operand(m)
        m1 == fetch(m)
    IN  IF v \in NoCopy
        THEN load(m1, m1.bp + ToSigned(word))
        ELSE load(m1, local(v, m1, word))

\* wordcode.c: one operand; the argument is popped and pushed again as the local
execute_call_wordcode(v, m) ==
    LET fn == operand(m)
        m1 == fetch(m)
        word == top(m1)
        m2 == pop(m1)
        m3 == push_frame(v, m2, 0)
        m4 == push(m3, word)
    IN  IF fn < FUNCTION_COUNT THEN [m4 EXCEPT !.ip = CodeBase] ELSE Fault(m4, "function")

\* all other variants: function id and argument count
execute_call(v, m) ==
    LET fn == operand(m)
        m1 == fetch(m)
        argc == operand(m1)
        m2 == fetch(m1)
        args == m2.sp - argc
        m3 == push_frame(v, m2, argc)
        m4 == IF v \in ArgCopying THEN memcpy(m3, m3.sp, args, argc) ELSE m3
    IN  IF fn < FUNCTION_COUNT
        THEN [m4 EXCEPT !.sp = m4.sp + frame_size(v), !.ip = CodeBase]
        ELSE Fault(m4, "function")

execute_prim(m) ==
    LET word == operand(m)
        m1 == fetch(m)
    IN  prim_handlers(m1, word)

\* mutant: only the word 1 counts as true
execute_jt_only_on_one(m) ==
    LET offset == ToSigned(operand(m))
        m1 == fetch(m)
        word == top(m1)
        m2 == pop(m1)
    IN  IF word = 1 THEN [m2 EXCEPT !.ip = m2.ip + offset - 2] ELSE m2

\* mutant: the offset is taken from the operand word of the jump
execute_jt_from_operand(m) ==
    LET offset == ToSigned(operand(m))
        m1 == fetch(m)
        word == top(m1)
        m2 == pop(m1)
    IN  IF word # 0 THEN [m2 EXCEPT !.ip = m2.ip + offset - 1] ELSE m2

\* mutant: the branch pops a second word
execute_jt_pops_two(m) ==
    LET offset == ToSigned(operand(m))
        m1 == fetch(m)
        word == top(m1)
        m2 == pop(pop(m1))
    IN  IF word # 0 THEN [m2 EXCEPT !.ip = m2.ip + offset - 2] ELSE m2

execute_jt(m) ==
    LET offset == ToSigned(operand(m))
        m1 == fetch(m)
        word == top(m1)
        m2 == pop(m1)
    IN  IF word # 0 THEN [m2 EXCEPT !.ip = m2.ip + offset - 2] ELSE m2

\* mutant: the jump forgets the opcode word it has consumed
execute_jmp_from_operand(m) ==
    LET offset == ToSigned(operand(m))
        m1 == fetch(m)
    IN  [m1 EXCEPT !.ip = m1.ip + offset - 1]

execute_jmp(m) ==
    LET offset == ToSigned(operand(m))
        m1 == fetch(m)
    IN  [m1 EXCEPT !.ip = m1.ip + offset - 2]

\* the part of RET up to the test of ip (flat-loop variants)
execute_ret(v, m) == pop_frame(v, pop(m))

\* mutant: the callee's frame is not popped after the recursive execute
execute_call_return_keeps_frame(v, m, argc, word) ==
    push([m EXCEPT !.sp = m.sp - argc], word)

\* mutant: the result of the recursive execute is not pushed
execute_call_return_drops_word(v, m, argc, word) ==
    LET m1 == pop_frame(v, m)
    IN  [m1 EXCEPT !.sp = m1.sp - argc]

\* the rest of execute_call after the recursive execute returned `word`
\* (wordcode2, wordcode3)
execute_call_return(v, m, argc, word) ==
    LET m1 == pop_frame(v, m)
    IN  push([m1 EXCEPT !.sp = m1.sp - argc], word)

\* ------------------------------------------------------------------ set-up
\* arguments whose recursion fits in the stack of every variant
SessionArgs == {ToWord(-1)} \cup 0..MaxArg
\* and one whose recursion does not fit in any
ArgWords == SessionArgs \cup {DeepArg}

ZeroStack == << >>

\* mutant: bp starts at the stack base in every variant
Setup_bp_at_base(v, a, stk) ==
    LET m0 == [ip |-> CodeBase, sp |-> StackBase, bp |-> StackBase,
               stack |-> stk, fault |-> "none"]
    IN  IF v \in SwitchBased
        THEN push(push(push(m0, 0), 0), a)
        ELSE IF v \in NoCopy
        THEN push(push(push(push(m0, a), 0), 0), 0)
        ELSE push(push(push(push(m0, 0), 0), 0), a)

\* mutant: the outermost frame of the NoCopy variants counts the entry
\* argument
Setup_counts_entry_argument(v, a, stk) ==
    LET m0 == [ip |-> CodeBase, sp |-> StackBase, bp |-> StackBase,
               stack |-> stk, fault |-> "none"]
    IN  IF v \in SwitchBased
        THEN push(push(push(m0, 0), 0), a)
        ELSE IF v \in NoCopy
        THEN push(push(push(push([m0 EXCEPT !.bp = StackBase + 1], a), 0), 0), 1)
        ELSE push(push(push(push(m0, 0), 0), 0), a)

\* the registers and the stack when dispatch starts: main's (or execute's)
\* initial pushes on the stack array as it is
Setup(v, a, stk) ==
    LET m0 == [ip |-> CodeBase, sp |-> StackBase, bp |-> StackBase,
               stack |-> stk, fault |-> "none"]
    IN  IF v \in SwitchBased
        THEN push(push(push(m0, 0), 0), a)
        ELSE IF v \in NoCopy
        THEN push(push(push(push([m0 EXCEPT !.bp = StackBase + 1], a), 0), 0), 0)
        ELSE push(push(push(push(m0, 0), 0), 0), a)

NoResults == [v \in VariantSet |-> -1]
NoOutcomes == [v \in VariantSet |-> "none"]

\* nothing executed yet, sp where the initial pushes left it
NoCounters(m) == [call |-> 0, ret |-> 0, peak |-> m.sp - StackBase]

Start(v, a, stk) ==
    LET m == Setup(v, a, stk)
    IN  /\ ip = m.ip /\ sp = m.sp /\ bp = m.bp /\ stack = m.stack
        /\ cstack = << >> /\ calls = << >>
        /\ counters = NoCounters(m)
        /\ status = "running" /\ fault = "none" /\ result = 0 /\ tainted = FALSE

\* program v is started on the session's argument
Process(v) ==
    /\ variant = v
    /\ code = Corrupt(variant, mal)
    /\ literals = literals_init
    /\ arg = arg0
    /\ run = 1
    /\ Start(variant, arg, ZeroStack)
    /\ results = NoResults
    /\ outcomes = NoOutcomes

\* the programs as they are in the source
Init == mal = NoMal /\ arg0 \in SessionArgs /\ Process(Variants[1])

\* the arguments of the conformance table
ReferenceArgs == {0, 1, 2, 3, 4, 5, 10, 20}
InitReference ==
    mal = NoMal /\ arg0 \in ReferenceArgs /\ \E v \in VariantSet : Process(v)

\* programs with one malformed instruction
InitMalformed ==
    mal \in Malformations /\ arg0 \in SessionArgs /\ \E v \in VariantSet : Process(v)

\* one call of one program that runs to its end: the arguments up to MaxRunArg
MaxRunArg == 4
InitRun ==
    mal = NoMal /\ arg0 \in 0..MaxRunArg /\ \E v \in VariantSet : Process(v)

\* one call of one program on an argument that runs to its end, or on one of
\* the arguments around the deepest recursion that fits in the stack
BoundaryArgs == {204, 205, 255, 256}
InitPeak ==
    /\ mal = NoMal
    /\ arg0 \in (0..MaxRunArg) \cup BoundaryArgs
    /\ \E v \in VariantSet : Process(v)

\* the same calls on a stack array that holds in every cell a word left over
\* from before the call; Stale is a value no store of the interpreter
\* produces (stored words are below WordMod)
Stale == WordMod
StaleStack == [i \in 1..STACK_SIZE |-> Stale]
InitStale ==
    /\ mal = NoMal
    /\ arg0 \in (0..MaxRunArg) \cup BoundaryArgs
    /\ \E v \in VariantSet :
        /\ variant = v
        /\ code = Corrupt(variant, mal)
        /\ literals = literals_init
        /\ arg = arg0
        /\ run = 1
        /\ Start(variant, arg, StaleStack)
        /\ results = NoResults
        /\ outcomes = NoOutcomes

\* the sample program with one LOAD operand varied
InitLoad ==
    \E v \in VariantSet :
        /\ mal \in LoadVariations(v)
        /\ arg0 \in 0..MaxArg
        /\ Process(v)

\* one instruction of the sample program on operands of any kind: dispatch is
\* about to execute the instruction at index i with the words lhs and rhs
\* pushed last
OperandWords == {0, 1, 2, MaxInt, ToWord(MinInt), ToWord(-1)}

InitOperands ==
    /\ mal = NoMal
    /\ arg0 \in 0..MaxArg
    /\ \E v \in VariantSet, lhs \in OperandWords, rhs \in OperandWords :
        \E i \in OpcodeIndices(v) :
            LET m == push(push(Setup(v, arg0, ZeroStack), lhs), rhs)
            IN  /\ OpOf(v, fib_code(v)[i + 1]) \notin {CALL, RET}
                /\ variant = v
                /\ code = fib_code(v)
                /\ literals = literals_init
                /\ arg = arg0
                /\ run = 1
                /\ ip = CodeBase + i /\ sp = m.sp /\ bp = m.bp /\ stack = m.stack
                /\ cstack = << >> /\ calls = << >>
                /\ counters = NoCounters(m)
                /\ status = "running" /\ fault = "none" /\ result = 0 /\ tainted = FALSE
                /\ results = NoResults
                /\ outcomes = NoOutcomes

\* f(n) = 1 if n < 2 else f(n-1) + f(n-2), as the pair << f(n), f(n-1) >>
RECURSIVE FibPair(_)
FibPair(n) ==
    IF n < 2 THEN << 1, 1 >>
    ELSE LET p == FibPair(n - 1) IN << p[1] + p[2], p[1] >>
Fib(n) == FibPair(n)[1]

\* ----------------------------------------------------------------- actions
Terminal == {"done", "aborted", "crashed", "garbage"}

\* the instruction the opcode word at ip selects, -1 if none
CurOp == IF InCode(ip) THEN OpOf(variant, code[ip - CodeBase + 1]) ELSE -1

\* the machine after GOTO_NEXT / fetch of the opcode word
M0 == fetch(M)

AtOp(op) == status = "running" /\ CurOp = op

\* the first execute call of a program ends: note its outcome
Record(st, res) ==
    IF run = 1
    THEN /\ results' = [results EXCEPT ![variant] = res]
         /\ outcomes' = [outcomes EXCEPT ![variant] = st]
    ELSE UNCHANGED << results, outcomes >>

Registers(m) == ip' = m.ip /\ sp' = m.sp /\ bp' = m.bp /\ stack' = m.stack

\* dispatch goes on with machine m, or has left defined behaviour
Commit(m) ==
    /\ Registers(m)
    /\ fault' = m.fault
    /\ status' = IF m.fault = "none" THEN "running" ELSE "ub"
    /\ tainted' = (tainted \/ m.fault # "none")
    /\ UNCHANGED << mal, variant, code, literals, arg0, arg, run, result,
                    results, outcomes >>

\* the counters after an instruction that leaves machine m, c CALLs and r RETs
\* more executed
Tally(m, c, r) ==
    [call |-> counters.call + c, ret |-> counters.ret + r,
     peak |-> IF m.sp - StackBase > counters.peak THEN m.sp - StackBase ELSE counters.peak]

\* an instruction other than CALL and RET leaves machine next
Step(next) ==
    \E m \in {next} :
        Commit(m) /\ counters' = Tally(m, 0, 0) /\ UNCHANGED << cstack, calls >>

ExecLIT == AtOp(LIT) /\ Step(execute_lit(M0))

ExecLOAD == AtOp(LOAD) /\ Step(execute_load(variant, M0))

ExecPRIM == AtOp(PRIM) /\ Step(execute_prim(M0))

ExecJT == AtOp(JT) /\ Step(execute_jt(M0))

ExecJMP == AtOp(JMP) /\ Step(execute_jmp(M0))

ExecCONST ==
    \E n \in 0..2 :
        /\ AtOp(CONST_0 + n)
        /\ Step(CONST(M0, n))

ExecSUB1 == AtOp(SUB1) /\ Step(SUB1_handler(M0))

\* mutant: CALL is a recursive call of execute in every variant
ExecCALL_always_recursive ==
    /\ AtOp(CALL)
    /\ \E m \in {IF variant = "wordcode" THEN execute_call_wordcode(variant, M0)
                   ELSE execute_call(variant, M0)} :
        LET argc == IF variant = "wordcode" THEN 1 ELSE operand(fetch(M0))
            ret == M0.ip + Width(variant, CALL) - 1
        IN /\ Commit(m)
           /\ counters' = Tally(m, 1, 0)
           /\ calls' = IF m.fault = "none"
                       THEN Append(calls, [bp |-> bp, sp |-> sp, ret |-> ret, argc |-> argc,
                                           arg |-> top(M)])
                       ELSE calls
           /\ cstack' = IF m.fault = "none" THEN Append(cstack, argc) ELSE cstack

ExecCALL ==
    /\ AtOp(CALL)
    /\ \E m \in {IF variant = "wordcode" THEN execute_call_wordcode(variant, M0)
                   ELSE execute_call(variant, M0)} :
        LET argc == IF variant = "wordcode" THEN 1 ELSE operand(fetch(M0))
            ret == M0.ip + Width(variant, CALL) - 1
        IN /\ Commit(m)
           /\ counters' = Tally(m, 1, 0)
           /\ calls' = IF m.fault = "none"
                       THEN Append(calls, [bp |-> bp, sp |-> sp, ret |-> ret, argc |-> argc,
                                           arg |-> top(M)])
                       ELSE calls
           /\ cstack' = IF m.fault = "none" /\ variant \in NativeRecursive
                        THEN Append(cstack, argc) ELSE cstack

Front(s) == IF s = << >> THEN s ELSE SubSeq(s, 1, Len(s) - 1)

\* execute returns word to its caller outside the interpreter
Return(m, word) ==
    /\ Registers(m)
    /\ status' = "done" /\ fault' = "none" /\ result' = word
    /\ Record("done", word)
    /\ counters' = Tally(m, 0, 1)
    /\ UNCHANGED << mal, variant, code, literals, arg0, arg, run, cstack, calls, tainted >>

\* RET in the flat-loop variants
ExecRET_flat ==
    /\ AtOp(RET) /\ variant \in FlatLoop
    /\ \E word \in {top(M0)}, m \in {execute_ret(variant, M0)} :
        IF m.fault = "none" /\ m.ip = NULL
        THEN Return(m, word)
        ELSE \E next \in {push(m, word)} :
                /\ Commit(next)
                /\ counters' = Tally(next, 0, 1)
                /\ calls' = Front(calls)
                /\ UNCHANGED cstack

\* RET in wordcode2 and wordcode3: return pop(interp); the caller is main or
\* the execute_call that made the recursive call
ExecRET_native ==
    /\ AtOp(RET) /\ variant \in NativeRecursive
    /\ \E word \in {top(M0)}, m \in {pop(M0)} :
        IF m.fault = "none" /\ cstack = << >>
        THEN Return(m, word)
        ELSE \E next \in {execute_call_return(variant, m, cstack[Len(cstack)], word)} :
                /\ Commit(next)
                /\ counters' = Tally(next, 0, 1)
                /\ calls' = Front(calls)
                /\ cstack' = Front(cstack)

ExecRET == ExecRET_flat \/ ExecRET_native

\* switch (opcode) default: fprintf(stderr, ...); abort();
ExecDefault ==
    /\ status = "running" /\ CurOp = -1
    /\ variant \in SwitchBased /\ InCode(ip)
    /\ Registers(M0)
    /\ status' = "aborted" /\ fault' = "opcode"
    /\ Record("aborted", -1)
    /\ UNCHANGED << mal, variant, code, literals, arg0, arg, run, result, cstack, calls,
                    counters, tainted >>

\* a threaded variant calls or jumps to the word it fetched, whatever it is;
\* any variant reads past the code vector if ip has left it
ExecWild ==
    /\ status = "running" /\ CurOp = -1
    /\ ~(variant \in SwitchBased /\ InCode(ip))
    /\ Step(Fault(M0, IF InCode(ip) THEN "opcode" ELSE "fetch"))

\* ------------------------------------------------- undefined behaviour
\* After an access outside an array the C standard leaves the outcome open.
\* The builds can kill the process, or go on and return some word, with or
\* without a static object next to the array overwritten.
GarbageWords == {0, 7}

UBCrash ==
    /\ status = "ub"
    /\ status' = "crashed"
    /\ Record("crashed", -1)
    /\ UNCHANGED << mal, variant, code, literals, arg0, arg, run, ip, sp, bp, stack,
                    cstack, fault, tainted, result, calls, counters >>

UBReturn ==
    /\ status = "ub"
    /\ \E w \in GarbageWords, clobber \in BOOLEAN :
        /\ status' = "garbage"
        /\ result' = w
        /\ literals' = IF clobber THEN [literals EXCEPT ![1] = w] ELSE literals
        /\ Record("garbage", w)
    /\ UNCHANGED << mal, variant, code, arg0, arg, run, ip, sp, bp, stack,
                    cstack, fault, tainted, calls, counters >>

\* a signed overflow on a build that wraps: dispatch goes on with the wrapped
\* word
UBWrap ==
    /\ status = "ub" /\ fault = "arith"
    /\ status' = "running" /\ fault' = "none"
    /\ UNCHANGED << mal, variant, code, literals, arg0, arg, run, ip, sp, bp, stack,
                    cstack, tainted, result, calls, counters, results, outcomes >>

\* the stack addresses the instruction at ip reads before it writes any
StackReads ==
    LET m == M0
        argc == operand(fetch(m))
    IN  IF CurOp = LOAD
        THEN { IF variant \in NoCopy THEN m.bp + ToSigned(operand(m))
                                     ELSE local(variant, m, operand(m)) }
        ELSE IF CurOp = PRIM THEN { m.sp - 1, m.sp - 2 }
        ELSE IF CurOp \in {JT, SUB1} THEN { m.sp - 1 }
        ELSE IF CurOp = CALL
        THEN IF variant = "wordcode" THEN { m.sp - 1 }
             ELSE IF variant \in ArgCopying THEN (m.sp - argc)..(m.sp - 1)
             ELSE {}
        ELSE IF CurOp = RET
        THEN { m.sp - 1 }
             \cup (IF variant \in NativeRecursive /\ cstack = << >>
                   THEN {}
                   ELSE m.bp..(m.bp + ControlWords(variant) - 1))
        ELSE {}

\* ------------------------------------------------------------- the harness
StartNext(v, a, stk) ==
    LET m == Setup(v, a, stk)
    IN  /\ Registers(m)
        /\ cstack' = << >> /\ calls' = << >>
        /\ counters' = NoCounters(m)
        /\ status' = "running" /\ fault' = "none" /\ result' = 0

\* the process calls execute again on the stack array as the last call left
\* it: after the first call one call with any argument, then one more call
\* with the session's argument
Rerun ==
    /\ status \in {"done", "garbage"}
    /\ run \in {1, 2}
    /\ run' = run + 1
    /\ \E a \in ArgWords :
        /\ (run = 2) => a = arg0
        /\ arg' = a
        /\ StartNext(variant, a, stack)
    /\ UNCHANGED << mal, variant, code, literals, arg0, tainted, results, outcomes >>

\* the next program is started in a fresh process on the session's argument
NextVariant ==
    /\ status \in Terminal
    /\ IndexOf(variant) < Len(Variants)
    /\ variant' = Variants[IndexOf(variant) + 1]
    /\ code' = Corrupt(variant', mal)
    /\ literals' = literals_init
    /\ run' = 1
    /\ arg' = arg0
    /\ StartNext(variant', arg0, ZeroStack)
    /\ tainted' = FALSE
    /\ UNCHANGED << mal, arg0, results, outcomes >>

Dispatch ==
    \/ ExecLIT \/ ExecLOAD \/ ExecCALL \/ ExecPRIM \/ ExecJT \/ ExecJMP \/ ExecRET
    \/ ExecCONST \/ ExecSUB1

Next == Dispatch \/ UBCrash \/ UBReturn \/ Rerun \/ NextVariant

\* one call of one program, which may be malformed
NextMalformed == Dispatch \/ ExecDefault \/ ExecWild \/ UBCrash \/ UBReturn

\* one call of one program
NextReference == Dispatch

\* ---------------------------------------------------- preprocessing a program
\* a program is loaded and not yet run: status "loaded", then "fused" after
\* one pass and "fused twice" after another
InitFuse ==
    /\ mal = NoMal /\ variant = FuseVariant
    /\ code \in FuseInputs
    /\ literals = literals_init
    /\ arg0 = 0 /\ arg = 0 /\ run = 0
    /\ ip = CodeBase /\ sp = StackBase /\ bp = StackBase /\ stack = ZeroStack
    /\ cstack = << >> /\ calls = << >>
    /\ counters = [call |-> 0, ret |-> 0, peak |-> 0]
    /\ status = "loaded" /\ fault = "none" /\ result = 0 /\ tainted = FALSE
    /\ results = NoResults /\ outcomes = NoOutcomes

FusePass ==
    /\ status \in {"loaded", "fused"}
    /\ code' = fuse(code)
    /\ status' = IF status = "loaded" THEN "fused" ELSE "fused twice"
    /\ UNCHANGED << mal, variant, literals, arg0, arg, run, ip, sp, bp, stack, cstack,
                    fault, tainted, result, calls, counters, results, outcomes >>

NextFuse == FusePass

\* one call of one program with a varied LOAD
NextLoad == Dispatch \/ UBCrash \/ UBReturn

\* one call of one program; the dispatch loop never pauses
NextRun == Dispatch

\* one call of one program, followed as far as the RETs a call on MaxRunArg
\* executes
RetCap == 2 * Fib(MaxRunArg) - 1
Followed == counters.ret < RetCap
NextPeak ==
    \/ Followed /\ ExecLIT
    \/ Followed /\ ExecLOAD
    \/ Followed /\ ExecCALL
    \/ Followed /\ ExecPRIM
    \/ Followed /\ ExecJT
    \/ Followed /\ ExecJMP
    \/ Followed /\ ExecRET_flat
    \/ Followed /\ ExecRET_native
    \/ Followed /\ ExecCONST
    \/ Followed /\ ExecSUB1
    \/ UBCrash
    \/ UBReturn

\* the instructions up to the next CALL or RET
NextOperands ==
    \/ ExecLIT \/ ExecLOAD \/ ExecPRIM \/ ExecJT \/ ExecJMP \/ ExecCONST \/ ExecSUB1
    \/ UBCrash \/ UBReturn \/ UBWrap

Spec == Init /\ [][Next]_vars

SpecLoad == InitLoad /\ [][NextLoad]_vars

SpecFuse == InitFuse /\ [][NextFuse]_vars

SpecOperands == InitOperands /\ [][NextOperands]_vars

SpecPeak == InitPeak /\ [][NextPeak]_vars

SpecStale == InitStale /\ [][NextPeak]_vars

SpecRun == InitRun /\ [][NextRun]_vars /\ WF_vars(NextRun)

SpecMalformed == InitMalformed /\ [][NextMalformed]_vars

SpecReference == InitReference /\ [][NextReference]_vars

\* ------------------------------------------------------------------ claims

\* the literal outputs the conformance tests expect
Expected == << 1, 1, 2, 3, 5, 8 >>
ExpectedAt(n) ==
    IF n < 6 THEN Expected[n + 1]
    ELSE IF n = 10 THEN 89
    ELSE 10946

LastVariant == Variants[Len(Variants)]
AllRan == \A v \in VariantSet : outcomes[v] # "none"

\* C1: on the same argument the first execute call of every program that
\* has run ended the same way and returned the same word, whatever its
\* dispatch strategy.
C1_SameResultEveryVariant ==
    \A v, w \in VariantSet :
        (outcomes[v] # "none" /\ outcomes[w] # "none")
            => (outcomes[v] = "done" /\ outcomes[w] = "done" /\ results[v] = results[w])

C1_Witness ==
    /\ AllRan
    /\ arg0 = MaxArg
    /\ \A v \in VariantSet : outcomes[v] = "done" /\ results[v] = Fib(MaxArg)

\* C2: a call that returns in a process that never left defined behaviour
\* returns f(arg) with f(n) = 1 if n < 2 else f(n-1) + f(n-2); on the
\* arguments of the conformance table that is the literal 1, 1, 2, 3, 5, 8,
\* 89, 10946, in every program.
C2_ComputesFib ==
    (status = "done" /\ ~tainted)
        => /\ result = ToWord(Fib(ToSigned(arg)))
           /\ arg \in ReferenceArgs => result = ExpectedAt(arg)

C2_Witness ==
    /\ status = "done" /\ variant = LastVariant
    /\ arg = 20 /\ result = 10946

\* C3: the fused program of comboinstructions.c returns what the unfused
\* program of directthreaded4.c returns on the same argument.
C3_FusionTransparent ==
    (outcomes["directthreaded4"] # "none" /\ outcomes["comboinstructions"] # "none")
        => /\ outcomes["comboinstructions"] = outcomes["directthreaded4"]
           /\ results["comboinstructions"] = results["directthreaded4"]

C3_Witness ==
    /\ outcomes["directthreaded4"] = "done" /\ outcomes["comboinstructions"] = "done"
    /\ arg0 = MaxArg
    /\ results["comboinstructions"] = Fib(MaxArg)

\* the CALL the current frame was entered by (calls is not empty)
Caller == calls[Len(calls)]
\* lowest address the current frame may write: where its result will go
Floor == IF calls = << >> THEN StackBase ELSE Caller.sp - Caller.argc

\* C4: a RET executed in a frame entered by CALL fnId argc leaves bp as it
\* was before that CALL, ip after the CALL's operands and sp at (sp before
\* the CALL) - argc + 1 with the returned word on top, and closes that CALL;
\* execute returns only when every CALL has been closed; and no step changes
\* a stack word below the place the result of the current frame goes to, so
\* that nothing of the callee is left below sp.
C4_Step ==
    /\ (AtOp(RET) /\ calls # << >>)
        => /\ status' = "running"
           /\ bp' = Caller.bp
           /\ ip' = Caller.ret
           /\ sp' = Caller.sp - Caller.argc + 1
           /\ Cell(stack', sp' - 1 - StackBase) = top(M0)
           /\ calls' = Front(calls)
    /\ (status = "running" /\ status' = "done") => (AtOp(RET) /\ calls = << >>)
    /\ (status = "running" /\ status' \in {"running", "done"})
        => \A a \in StackBase..(Floor - 1) :
               Cell(stack', a - StackBase) = Cell(stack, a - StackBase)
C4_FrameDiscipline == [][C4_Step]_vars

\* the first CALL of directthreaded3 on argument 3 has returned f(2)
C4_Witness ==
    /\ variant = "directthreaded3" /\ run = 1 /\ arg = 3
    /\ status = "running" /\ calls = << >>
    /\ IpOff = 17 /\ BpOff = 1 /\ SpOff = 5
    /\ top(M) = Fib(2)

\* C5 as claimed: execute returns exactly when a RET restores the null
\* instruction pointer, which happens only in the outermost frame, and it
\* returns the word that RET popped; any other RET pushes the word back and
\* dispatch goes on.
C5_RetStepAsClaimed ==
    AtOp(RET)
        => /\ (status' = "done") <=> (ip' = NULL)
           /\ (status' = "done") => (calls = << >> /\ result' = top(M0))
           /\ (status' # "done")
                => (status' = "running" /\ Cell(stack', sp' - 1 - StackBase) = top(M0))
C5_ReturnsOnNullIp == [][C5_RetStepAsClaimed]_vars

\* C5 amended: execute returns to its caller outside the interpreter exactly
\* at the RET of the outermost frame, with the word that RET popped; in the
\* flat-loop variants that is exactly when RET restores the null instruction
\* pointer; in wordcode2 and wordcode3 it is the RET executed while no
\* execute_call is active, which pops the result only and leaves ip and bp
\* as they are; any other RET pushes the word back and dispatch goes on.
C5_RetStepAmended ==
    AtOp(RET)
        => /\ (status' = "done") <=> (calls = << >>)
           /\ (variant \in FlatLoop) => ((status' = "done") <=> (ip' = NULL))
           /\ (variant \in NativeRecursive /\ status' = "done")
                => (cstack = << >> /\ ip' = ip + 1 /\ bp' = bp /\ sp' = sp - 1)
           /\ (status' = "done") => result' = top(M0)
           /\ (status' # "done")
                => (status' = "running" /\ Cell(stack', sp' - 1 - StackBase) = top(M0))
C5_ReturnsAtOutermostRet == [][C5_RetStepAmended]_vars

\* wordcode2 has returned f(3) from its outermost RET and a nested RET ran before
C5_Witness ==
    /\ variant = "wordcode2" /\ run = 1 /\ arg = 3
    /\ status = "done" /\ result = Fib(3)
    /\ ip # NULL /\ SpOff = 3

\* C6 as claimed: stack occupancy never exceeds STACK_SIZE.
C6_OccupancyWithinCapacity == SpOff <= STACK_SIZE

\* C7 as claimed: a push that does not fit ends execute in a StackOverflow
\* failure, with no word written outside the array and no result.
C7_OverflowReported ==
    (fault = "overflow") => (status = "StackOverflow" /\ SpOff <= STACK_SIZE)

\* C8 as claimed: a call with the session's argument returns what the first
\* call of the process returned on it, whatever call came in between.
C8_SameResultOnRepeat ==
    (run = 3 /\ status \in Terminal) => (status = "done" /\ result = results[variant])

\* C9 as claimed: fetching a word that is no opcode ends execute in the
\* explicit failure of the default case.
C9_InvalidOpcodeFails == (fault = "opcode") => (status = "aborted")

\* C10 as claimed: a PRIM or CALL whose id is outside its table ends execute
\* in an explicit failure.
C10_InvalidIdFails == (fault \in {"primitive", "function"}) => (status = "aborted")

\* C11: the fusion pass is idempotent: a second pass over a fused program
\* returns that program unchanged, fuse(fuse(P)) = fuse(P).
C11_SecondPassChangesNothing == (status = "fused") => (code' = code)
C11_FuseIdempotent == [][C11_SecondPassChangesNothing]_vars

\* the pass maps the program of directthreaded4.c to the program of
\* comboinstructions.c
FuseYieldsCombo ==
    (status = "loaded" /\ code = fib_code("directthreaded4"))
        => (code' = fib_code("comboinstructions"))
FuseMatchesSource == [][FuseYieldsCombo]_vars

\* a second pass has left the program of comboinstructions.c as it is
C11_Witness ==
    /\ status = "fused twice"
    /\ code = fib_code("comboinstructions")
    /\ code # fib_code("directthreaded4")
    /\ Len(code) = 26

\* the jump about to be executed is taken
Taken == AtOp(JMP) \/ (AtOp(JT) /\ top(fetch(M0)) # 0)
\* its offset operand
Offset == ToSigned(operand(M0))

\* C12: the offset of JT and JMP is counted from the start of the jump
\* instruction: a taken jump whose opcode word is at index i with operand
\* off continues at index i + off, a JT not taken at the next instruction;
\* the 'JT 24' at index 6 of wordcode2 continues at index 30.
C12_JumpStep ==
    /\ Taken => (status' = "running" /\ IpOff' = IpOff + Offset)
    /\ (AtOp(JT) /\ ~Taken) => (status' = "running" /\ IpOff' = IpOff + 2)
    /\ (Taken /\ variant = "wordcode2" /\ IpOff = 6) => (Offset = 24 /\ IpOff' = 30)
C12_OffsetFromInstructionStart == [][C12_JumpStep]_vars

\* the JT at index 6 of wordcode2 was taken: dispatch is at index 30
C12_Witness ==
    /\ variant = "wordcode2" /\ status = "running" /\ run = 1
    /\ IpOff = 30 /\ arg = 1

\* address of the word after the operand of the jump about to be executed
IpAfterOperand == fetch(M0).ip

\* C13 as claimed: the offset is the distance from the first operand word of
\* the jump to its target; the handler subtracts the one operand word it has
\* consumed: target = ip_after_operand + offset - 1.
C13_JumpStepAsClaimed ==
    Taken => /\ ip' - (ip + 1) = Offset
             /\ ip' = IpAfterOperand + Offset - 1
C13_OffsetFromOperand == [][C13_JumpStepAsClaimed]_vars

\* C13 amended: the offset is the distance from the opcode word of the jump
\* to its target; the handler subtracts the two words of the jump instruction
\* it has consumed, opcode and operand: target = ip_after_operand + offset - 2,
\* which is one word less than the distance from the operand word.
C13_JumpStepAmended ==
    Taken => /\ ip' = IpAfterOperand + Offset - Width(variant, JMP)
             /\ ip' - (ip + 1) = Offset - 1
             /\ ip' - ip = Offset
C13_OffsetFromOpcode == [][C13_JumpStepAmended]_vars

\* the 'JMP 3' at index 22 of comboinstructions has continued at the RET at
\* index 25 with f(1) + f(2) on top
C13_Witness ==
    /\ variant = "comboinstructions" /\ status = "running" /\ run = 1
    /\ arg = 3 /\ calls = << >>
    /\ IpOff = 25 /\ top(M) = Fib(3)

\* word k of the frame at address b of stack array stk
FrameWord(stk, b, k) == Cell(stk, b + k - StackBase)
\* the operands of the CALL about to be executed and the address after them
CallArgc == IF variant = "wordcode" THEN 1 ELSE operand(fetch(M0))
CallReturn == ip + Width(variant, CALL)
\* words the callee's frame holds above its control words when it is entered
EntryLocals == IF variant \in NoCopy THEN 0 ELSE 1

\* C14 as claimed: every frame push, the synthetic outermost frame and every
\* CALL, stores exactly three control words, old bp, old ip and argument
\* count, at bp, bp+1 and bp+2 of the new frame.
C14_PushStepAsClaimed ==
    /\ (status = "running" /\ calls = << >>)
        => /\ FrameWord(stack, bp, 0) = 0
           /\ FrameWord(stack, bp, 1) = 0
           /\ FrameWord(stack, bp, 2) = 0
    /\ (AtOp(CALL) /\ status' = "running")
        => /\ FrameWord(stack', bp', 0) = bp
           /\ FrameWord(stack', bp', 1) = CallReturn
           /\ FrameWord(stack', bp', 2) = CallArgc
           /\ sp' = bp' + 3 + EntryLocals
C14_ThreeControlWords == [][C14_PushStepAsClaimed]_vars

\* C14 amended: in handlercode2 and the direct-threaded variants every frame
\* push stores exactly three control words, old bp, old ip and argument
\* count (zero, zero, zero in the synthetic frame); in wordcode, wordcode2
\* and wordcode3 it stores exactly two, old bp and old ip, and the first
\* local is at bp+2.
C14_PushStepAmended ==
    LET three == variant \notin {"wordcode", "wordcode2", "wordcode3"}
    IN  /\ (status = "running" /\ calls = << >>)
            => /\ FrameWord(stack, bp, 0) = 0
               /\ FrameWord(stack, bp, 1) = 0
               /\ IF three THEN FrameWord(stack, bp, 2) = 0
                  ELSE FrameWord(stack, bp, 2) = arg
        /\ (AtOp(CALL) /\ status' = "running")
            => /\ FrameWord(stack', bp', 0) = bp
               /\ FrameWord(stack', bp', 1) = CallReturn
               /\ IF three
                  THEN /\ FrameWord(stack', bp', 2) = CallArgc
                       /\ sp' = bp' + 3 + EntryLocals
                  ELSE /\ FrameWord(stack', bp', 2) = top(M)
                       /\ sp' = bp' + 2 + EntryLocals
C14_ControlWordsPerVariant == [][C14_PushStepAmended]_vars

\* handlercode2 has entered f(2) from f(3): three control words and the
\* copied argument
C14_Witness ==
    /\ variant = "handlercode2" /\ run = 1 /\ arg = 3 /\ status = "running"
    /\ Len(calls) = 1 /\ ip = CodeBase
    /\ FrameWord(stack, bp, 0) = StackBase
    /\ FrameWord(stack, bp, 1) = CodeBase + 17
    /\ FrameWord(stack, bp, 2) = 1
    /\ FrameWord(stack, bp, 3) = 2
    /\ sp = bp + 4

\* the argument the current frame was entered with
FrameArg == IF calls = << >> THEN arg ELSE Caller.arg

\* C15: in directthreaded3, directthreaded4 and comboinstructions CALL copies
\* no argument: it writes the three control words directly on top of the N
\* argument words and nothing else, so that parameter i of the callee is the
\* word at bp - N + i; while the sample function runs its argument is the
\* word at bp - 1, also in the initial frame, where bp = stack + 1.
C15_NoCopyStep ==
    (variant \in NoCopy)
        => /\ (status = "running" /\ calls = << >>) => bp = StackBase + 1
           /\ (status = "running") => (BpOff > 0 /\ Cell(stack, BpOff - 1) = FrameArg)
           /\ (AtOp(CALL) /\ status' = "running")
                => /\ bp' = sp
                   /\ sp' = bp' + 3
                   /\ \A i \in 0..(CallArgc - 1) :
                        Cell(stack', BpOff' - CallArgc + i) = Cell(stack, SpOff - CallArgc + i)
                   /\ \A a \in 0..Len(stack') :
                        (a < SpOff \/ a >= SpOff + 3) => Cell(stack', a) = Cell(stack, a)
C15_ArgumentsBelowFrame == [][C15_NoCopyStep]_vars

\* directthreaded3 has entered f(1) from f(2) from f(3)
C15_Witness ==
    /\ variant = "directthreaded3" /\ run = 1 /\ arg = 3 /\ status = "running"
    /\ Len(calls) = 2 /\ ip = CodeBase
    /\ BpOff = 9 /\ SpOff = 12
    /\ Cell(stack, BpOff - 1) = 1

\* 1 when the RET about to be executed pushes the result back, 0 when
\* execute returns it
Pushed == IF status' = "running" THEN 1 ELSE 0

\* C16 as claimed: frame pop first resets sp to bp + 3, so that after a RET
\* bp, ip and sp are given by the three control words of the current frame
\* alone, whatever lies above them.
C16_RetStepAsClaimed ==
    (AtOp(RET) /\ status' \in {"running", "done"})
        => /\ bp' = FrameWord(stack, bp, 0)
           /\ ip' = FrameWord(stack, bp, 1)
           /\ sp' = bp - FrameWord(stack, bp, 2) + Pushed
C16_RetUniform == [][C16_RetStepAsClaimed]_vars

\* C16 amended: in handlercode2 and the direct-threaded variants frame pop
\* resets sp to bp + 3 and bp, ip and sp after a RET are given by the three
\* control words of the current frame alone.  In wordcode, wordcode2 and
\* wordcode3 frame pop resets sp to bp + 2 and bp and ip are given by the two
\* control words; sp is bp in wordcode (CALL had popped the argument) and
\* bp minus the argument count execute_call kept in wordcode2 and wordcode3,
\* whose outermost RET pops no frame and only takes the result off the stack.
\* In no variant does the outcome depend on the words above the control words.
C16_RetStepAmended ==
    (AtOp(RET) /\ status' \in {"running", "done"})
        => IF variant \notin {"wordcode", "wordcode2", "wordcode3"}
           THEN /\ bp' = FrameWord(stack, bp, 0)
                /\ ip' = FrameWord(stack, bp, 1)
                /\ sp' = bp - FrameWord(stack, bp, 2) + Pushed
           ELSE IF variant = "wordcode"
           THEN /\ bp' = FrameWord(stack, bp, 0)
                /\ ip' = FrameWord(stack, bp, 1)
                /\ sp' = bp + Pushed
           ELSE IF cstack # << >>
           THEN /\ bp' = FrameWord(stack, bp, 0)
                /\ ip' = FrameWord(stack, bp, 1)
                /\ sp' = bp - cstack[Len(cstack)] + Pushed
           ELSE bp' = bp /\ ip' = ip + 1 /\ sp' = sp - 1
C16_RetUniformPerVariant == [][C16_RetStepAmended]_vars

\* handlercode2 is back in f(3) after the RET of f(2), which was executed
\* with a local and the result above the control words
C16_Witness ==
    /\ variant = "handlercode2" /\ run = 1 /\ arg = 3 /\ status = "running"
    /\ calls = << >> /\ IpOff = 17
    /\ BpOff = 0 /\ SpOff = 5
    /\ top(M) = Fib(2)

\* the offset operand of the LOAD about to be executed, the address it
\* reads in the no-copy variants and the number of arguments of the frame
LoadOff == ToSigned(operand(M0))
LoadAddr == bp + LoadOff
FrameArgc == IF calls = << >> THEN 1 ELSE Caller.argc
\* the LOAD about to be executed pushes the word at address a
LoadPushes(a) == sp' = sp + 1 /\ Cell(stack', SpOff) = Cell(stack, a - StackBase)

\* C17 as claimed, for the variants whose LOAD takes a signed offset
\* (directthreaded3, directthreaded4, comboinstructions): LOAD off pushes
\* the word at bp + off; every negative off reaches an argument of the
\* frame and every positive off a local variable of the frame, above its
\* control words.
C17_LoadStepAsClaimed ==
    (variant \in NoCopy /\ AtOp(LOAD) /\ status' = "running")
        => /\ LoadPushes(LoadAddr)
           /\ (LoadOff < 0) => LoadAddr \in (bp - FrameArgc)..(bp - 1)
           /\ (LoadOff > 0) => LoadAddr >= bp + 3
C17_LoadStepAmended ==
    (AtOp(LOAD) /\ status' = "running")
        => IF variant \in NoCopy
           THEN /\ LoadPushes(LoadAddr)
                /\ (LoadOff \in (0 - FrameArgc)..(-1)) => LoadAddr \in (bp - FrameArgc)..(bp - 1)
                /\ (LoadOff = -1) => Cell(stack', SpOff) = FrameArg
                /\ (LoadOff < 0 - FrameArgc) => LoadAddr < bp - FrameArgc
                /\ (LoadOff = 0)
                     => Cell(stack', SpOff) = (IF calls = << >> THEN 0 ELSE Caller.bp)
                /\ (LoadOff = 1)
                     => Cell(stack', SpOff) = (IF calls = << >> THEN NULL ELSE Caller.ret)
                /\ (LoadOff = 2)
                     => Cell(stack', SpOff) = (IF calls = << >> THEN 0 ELSE Caller.argc)
                /\ (LoadOff >= 3) => LoadAddr >= bp + 3
           ELSE LoadPushes(bp + (IF variant \in {"wordcode", "wordcode2", "wordcode3"}
                                 THEN 2 ELSE 3) + operand(M0))
OuterBase == IF variant \in NoCopy THEN StackBase + 1 ELSE StackBase
FrameBase(k) ==
    IF k = 0 THEN OuterBase
    ELSE IF variant = "wordcode" THEN calls[k].sp - 1 ELSE calls[k].sp

\* bp is the saved-bp slot of the newest frame, the saved bp of each frame
\* is the saved-bp slot of the frame below it, a lower address, and the
\* control words of the synthetic frame (three if argc, two if not) are zero
ChainOK(stk, b, argc) ==
    /\ InStack(b)
    /\ b = FrameBase(Len(calls))
    /\ \A k \in 1..Len(calls) :
         /\ FrameWord(stk, FrameBase(k), 0) = FrameBase(k - 1)
         /\ FrameBase(k - 1) < FrameBase(k)
    /\ FrameWord(stk, OuterBase, 0) = 0
    /\ FrameWord(stk, OuterBase, 1) = 0
    /\ argc => FrameWord(stk, OuterBase, 2) = 0

\* C18 as claimed: while execute runs bp points at the saved-bp slot of the
\* frame of the executing function, and the saved base pointers lead through
\* strictly lower frames to the synthetic outermost frame, whose saved bp,
\* saved ip and argument count are all zero.
C18_FrameChain == (status = "running") => ChainOK(stack, bp, TRUE)

\* C18 amended: the same, the synthetic frame having a zero saved bp and a
\* zero saved ip in every variant and a zero argument count in the variants
\* that store one (all but wordcode, wordcode2 and wordcode3, where the word
\* at bp+2 is the argument).
C18_FrameChainPerVariant ==
    (status = "running")
        => ChainOK(stack, bp, variant \notin {"wordcode", "wordcode2", "wordcode3"})

\* directthreaded3 in f(1), called from f(2), called from f(3)
C18_Witness ==
    /\ variant = "directthreaded3" /\ run = 1 /\ arg = 3 /\ status = "running"
    /\ Len(calls) = 2
    /\ bp = StackBase + 9
    /\ FrameWord(stack, bp, 0) = StackBase + 5
    /\ FrameWord(stack, StackBase + 5, 0) = StackBase + 1
    /\ FrameWord(stack, StackBase + 1, 0) = 0

\* number of frames the saved base pointers lead through from b, -1 if
\* they do not lead to the synthetic frame
FrameCount(stk, b) ==
    IF /\ InStack(b) /\ b = FrameBase(Len(calls))
       /\ \A k \in 1..Len(calls) : FrameWord(stk, FrameBase(k), 0) = FrameBase(k - 1)
       /\ FrameWord(stk, OuterBase, 0) = NULL
    THEN Len(calls) + 1
    ELSE -1

\* active invocations of execute on the native stack: the one main made and
\* one per execute_call that has not returned
NativeDepth == 1 + Len(cstack)

\* C19: in wordcode2 and wordcode3 every CALL invokes execute recursively
\* and every RET returns from an invocation, so that while execute runs the
\* number of active invocations equals the number of frames on the stack.
C19_NativeStep ==
    (variant \in NativeRecursive)
        => /\ (status = "running") => NativeDepth = FrameCount(stack, bp)
           /\ (status' = "running") => NativeDepth' = FrameCount(stack, bp)'
           /\ (AtOp(CALL) /\ status' = "running") => NativeDepth' = NativeDepth + 1
           /\ (AtOp(RET) /\ status' = "running") => NativeDepth' = NativeDepth - 1
           /\ (AtOp(RET) /\ status' = "done") => NativeDepth = 1
C19_NativeDepthIsFrameDepth == [][C19_NativeStep]_vars

\* wordcode3 in f(1), called from f(2), called from f(3)
C19_Witness ==
    /\ variant = "wordcode3" /\ run = 1 /\ arg = 3 /\ status = "running"
    /\ NativeDepth = 3
    /\ FrameCount(stack, bp) = 3
    /\ ip = CodeBase

\* C20: in the flat-loop variants CALL changes only bp, ip, sp and words of
\* the stack and dispatch goes on in the same loop: the native call depth is
\* the same in every state, however deep the interpreted recursion.
C20_FlatStep ==
    (variant \in FlatLoop)
        => /\ NativeDepth = 1
           /\ AtOp(CALL)
                => /\ NativeDepth' = NativeDepth
                   /\ status' \in {"running", "ub"}
                   /\ UNCHANGED << mal, variant, code, literals, arg0, arg, run, result,
                                   results, outcomes >>
                   /\ status' = "running"
                        => /\ Len(calls') = Len(calls) + 1
                           /\ \A a \in 0..(SpOff - 2) : Cell(stack', a) = Cell(stack, a)
C20_NativeDepthConstant == [][C20_FlatStep]_vars

\* handlercode2 two hundred interpreted calls deep
C20_Witness ==
    /\ variant = "handlercode2" /\ arg = DeepArg /\ status = "running"
    /\ Len(calls) = 200
    /\ NativeDepth = 1

\* C21: PRIM id pops two words and pushes one, so sp ends one lower and the
\* words below the operands are untouched; the operand pushed first is the
\* left one and the operand pushed last the right one; lessThan pushes 0 or 1.
PrimId == operand(M0)
\* the operands of the primitive about to run, as int64_t
Lhs == ToSigned(Cell(stack, SpOff - 2))
Rhs == ToSigned(Cell(stack, SpOff - 1))
PrimResult == Cell(stack', SpOff - 2)

C21_PrimStep ==
    (AtOp(PRIM) /\ PrimId < PRIM_COUNT /\ status' = "running")
        => /\ sp' = sp - 1
           /\ bp' = bp
           /\ \A k \in 0..(SpOff - 3) : Cell(stack', k) = Cell(stack, k)
           /\ (PrimId = 0) => /\ PrimResult \in {0, 1}
                              /\ (PrimResult = 1) <=> (Lhs < Rhs)
           /\ (PrimId = 1) => PrimResult = ToWord(Lhs - Rhs)
           /\ (PrimId = 2) => PrimResult = ToWord(Lhs + Rhs)

C21_PrimPopsTwoPushesOne == [][C21_PrimStep]_vars

\* wordcode has run 'PRIM 1' (subtract) on 0 pushed first and 1 pushed last:
\* the result -1 replaced the 0, the 1 is still in the slot above sp
C21_Witness ==
    /\ variant = "wordcode" /\ status = "running"
    /\ IpOff = 14 /\ SpOff = 4
    /\ Cell(stack, 3) = ToWord(0 - 1)
    /\ Cell(stack, 4) = 1

\* C22: arithmetic is two's-complement at the width of a word: add and
\* subtract push lhs + rhs and lhs - rhs modulo 2^WordBits whatever the
\* operands are, and lessThan compares the operands as signed values.
C22_ArithStep ==
    (AtOp(PRIM) /\ PrimId < PRIM_COUNT)
        => /\ status' = "running"
           /\ (PrimId = 0) => ((PrimResult = 1) <=> (Lhs < Rhs))
           /\ (PrimId = 1) => PrimResult = ToWord(Lhs - Rhs)
           /\ (PrimId = 2) => PrimResult = ToWord(Lhs + Rhs)

C22_TwosComplement == [][C22_ArithStep]_vars

\* the part of C22 that does not depend on overflow: a call of execute on a
\* word with the sign bit set returns 1 and has executed no CALL
NegativeArgumentReturnsOne ==
    (status = "done" /\ ToSigned(arg) < 0) => (result = 1 /\ counters.call = 0)

\* where the int64_t result is representable the primitives push it
ArithStepInRange ==
    (AtOp(PRIM) /\ PrimId \in {1, 2}
        /\ Representable(IF PrimId = 1 THEN Lhs - Rhs ELSE Lhs + Rhs))
        => (status' = "running"
            /\ PrimResult = ToWord(IF PrimId = 1 THEN Lhs - Rhs ELSE Lhs + Rhs))

ArithInRange == [][ArithStepInRange]_vars

\* C23: in the fused program of comboinstructions.c, as in the unfused one of
\* directthreaded4.c, a taken JT continues at the opcode word of the CONST_1
\* of the base case (the one RET follows) and JMP at the opcode word of the
\* final RET; the offset of the JT, whose span holds both rewritten regions,
\* is smaller than the unfused one by the number of words fusion removed.
Unfused == fib_code("directthreaded4")
OpAt(i) == IF i >= 0 /\ i < Len(code) THEN OpOf(variant, code[i + 1]) ELSE -1

C23_FusedJumpStep ==
    (variant \in {"directthreaded4", "comboinstructions"} /\ Taken)
        => /\ status' = "running"
           /\ AtOp(JT) => /\ OpAt(IpOff') = CONST_1
                          /\ OpAt(IpOff' + 1) = RET
                          /\ Offset = ToSigned(Unfused[IpOff + 2]) - (Len(Unfused) - Len(code))
           /\ AtOp(JMP) => /\ OpAt(IpOff') = RET
                           /\ IpOff' = Len(code) - 1
                           /\ Offset = ToSigned(Unfused[IpOff + Len(Unfused) - Len(code) + 2])

C23_FusedJumpsKeepTargets == [][C23_FusedJumpStep]_vars

\* the fused program is about to run the CONST_1 of its base case in a
\* nested call: only the JT leads there
C23_Witness ==
    /\ variant = "comboinstructions" /\ status = "running"
    /\ Len(code) < Len(Unfused)
    /\ OpAt(IpOff) = CONST_1
    /\ calls # << >>

\* C24: while a program runs, no step of execute changes its program words
\* or its tables.
SameProcess == variant' = variant
C24_TablesStep == SameProcess => (code' = code /\ literals' = literals)

C24_TablesReadOnly == [][C24_TablesStep]_vars

\* as long as every write of execute stays inside the stack array, the
\* program words and the tables are unchanged
TablesStepWhileDefined ==
    (SameProcess /\ status' \notin {"garbage", "crashed"})
        => (code' = code /\ literals' = literals)

TablesReadOnlyWhileDefined == [][TablesStepWhileDefined]_vars

\* C25: whatever word is on top of the stack, SUB1 replaces it by that word
\* minus one (modulo 2^WordBits) and changes neither sp, bp nor any other
\* stack word; SUB1 leaves what 'CONST_1; PRIM subtract' leaves below sp, and
\* 'SUB1; SUB1' what 'CONST_2; PRIM subtract' leaves.
SameOutcome(a, b) ==
    /\ a.fault = b.fault
    /\ (a.fault = "none")
        => /\ a.sp = b.sp
           /\ a.bp = b.bp
           /\ \A k \in 0..(a.sp - StackBase - 1) : Cell(a.stack, k) = Cell(b.stack, k)

Sub1InPlace(x) ==
    /\ sp' = sp /\ bp' = bp
    /\ Cell(stack', SpOff - 1) = ToWord(x - 1)
    /\ Len(stack') = Len(stack)
    /\ \A k \in 0..(Len(stack) - 1) : (k # SpOff - 1) => Cell(stack', k) = Cell(stack, k)

Sub1Once == SUB1_handler(M0)
Sub1Twice == IF Sub1Once.fault = "none" THEN SUB1_handler(Sub1Once) ELSE Sub1Once

C25_Sub1Step ==
    AtOp(SUB1)
        => /\ status' = "running"
           /\ Sub1InPlace(ToSigned(top(M0)))
           /\ SameOutcome(Sub1Once, subtract(CONST(M0, 1)))
           /\ SameOutcome(Sub1Twice, subtract(CONST(M0, 2)))

C25_Sub1IsSubtractOne == [][C25_Sub1Step]_vars

\* the part of C25 that does not depend on overflow: the decrement is
\* computed in int64_t like the subtraction, so SUB1 and the sequences it
\* replaces overflow on the same operands, and on all others SUB1 works in
\* place and leaves what they leave
Sub1StepInRange ==
    AtOp(SUB1)
        => /\ (status' = "running") <=> Representable(ToSigned(top(M0)) - 1)
           /\ (status' = "running") => Sub1InPlace(ToSigned(top(M0)))
           /\ SameOutcome(Sub1Once, subtract(CONST(M0, 1)))
           /\ SameOutcome(Sub1Twice, subtract(CONST(M0, 2)))

Sub1LikeSubtract == [][Sub1StepInRange]_vars

\* C26: JT pops one word, taken or not, and writes nothing; it continues at
\* its target when the word is not zero, whatever else it is, and at the
\* instruction two words after its opcode when the word is zero.  JMP moves
\* ip and changes neither sp, bp nor the stack.
Condition == Cell(stack, SpOff - 1)

C26_BranchStep ==
    /\ AtOp(JT)
        => /\ status' = "running"
           /\ sp' = sp - 1 /\ bp' = bp /\ stack' = stack
           /\ (Condition # 0) => ip' = ip + Offset
           /\ (Condition = 0) => ip' = ip + 2
    /\ AtOp(JMP)
        => /\ status' = "running"
           /\ sp' = sp /\ bp' = bp /\ stack' = stack
           /\ ip' = ip + Offset

C26_JtPopsOneJmpNone == [][C26_BranchStep]_vars

\* wordcode has taken its JT on the word -1, which is neither 0 nor 1: ip
\* is at the base case and the word popped is in the slot above sp
C26_Witness ==
    /\ variant = "wordcode" /\ status = "running"
    /\ IpOff = 28 /\ SpOff = 4
    /\ Cell(stack, SpOff) = ToWord(0 - 1)

\* C27: for an argument n >= 0 whose recursion fits in the stack, execute
\* returns, and it has then executed 2*f(n) - 2 CALL instructions and
\* 2*f(n) - 1 RET instructions.
Returned == status = "done"
CountsAsClaimed ==
    /\ counters.call = 2 * Fib(arg) - 2
    /\ counters.ret = 2 * Fib(arg) - 1

CountsWhenReturned == Returned => CountsAsClaimed

C27_TerminatesWithCounts == <>Returned /\ []CountsWhenReturned

\* a call on 4 has returned after 8 CALLs and 9 RETs
C27_Witness ==
    /\ Returned /\ arg = 4 /\ result = 5
    /\ counters.call = 8 /\ counters.ret = 9

\* C28: in directthreaded3, directthreaded4 and comboinstructions a call
\* takes 4 stack words (its argument and three control words); the highest
\* sp of a call of execute on n is 6 for n < 2 and 4n + 3 for n >= 2; for
\* 2 <= n <= 255 no word is written outside stack[STACK_SIZE], and for
\* n >= 256 a push lands outside it before the first RET.
NoCopyPeak(n) == IF n < 2 THEN 6 ELSE 4 * n + 3

C28_PeakAsClaimed ==
    /\ counters.peak <= NoCopyPeak(arg)
    /\ Returned => counters.peak = NoCopyPeak(arg)
    /\ (arg >= 2 /\ arg <= 255) => (fault = "none" /\ counters.peak <= STACK_SIZE)
    /\ (arg >= 256) => counters.ret = 0
    /\ (arg >= 256 /\ status # "running") => fault = "overflow"

C28_NoCopyStep ==
    (variant \in NoCopy)
        => /\ (AtOp(CALL) /\ status' = "running") => sp' - (sp - CallArgc) = 4
           /\ C28_PeakAsClaimed'

C28_NoCopyStackUse == [][C28_NoCopyStep]_vars

\* directthreaded3 on 255 has reached the highest sp of its run, 1023, with
\* every word inside the array
C28_Witness ==
    /\ variant = "directthreaded3" /\ arg = 255
    /\ status = "running" /\ fault = "none"
    /\ SpOff = 4 * arg + 3
    /\ counters.peak = SpOff
    /\ counters.ret = 1

\* C29: in handlercode2, directthreaded and directthreaded2 a call takes 5
\* stack words (three control words, the copy of its argument, and the
\* argument left in the caller's frame); the highest sp of a call of execute
\* on n is 6 for n < 2, 12 for n = 2 and 5n + 2 for n >= 3; for n <= 204 no
\* word is written outside stack[STACK_SIZE], and for n >= 205 a push lands
\* outside it.
CopyingThreeWords == ArgCopying \ NativeRecursive

CopyPeak(n) == IF n < 2 THEN 6 ELSE IF n = 2 THEN 12 ELSE 5 * n + 2

C29_PeakAsClaimed ==
    /\ counters.peak <= CopyPeak(arg)
    /\ Returned => counters.peak = CopyPeak(arg)
    /\ (arg <= 204) => (fault = "none" /\ counters.peak <= STACK_SIZE)
    /\ (arg >= 205) => counters.ret = 0
    /\ (arg >= 205 /\ status # "running") => fault = "overflow"

C29_CopyStep ==
    (variant \in CopyingThreeWords)
        => /\ (AtOp(CALL) /\ status' = "running") => sp' - (sp - CallArgc) = 5
           /\ C29_PeakAsClaimed'

C29_CopyStackUse == [][C29_CopyStep]_vars

\* directthreaded2 on 204 has reached the highest sp of its run, 1022, with
\* every word inside the array
C29_Witness ==
    /\ variant = "directthreaded2" /\ arg = 204
    /\ status = "running" /\ fault = "none"
    /\ SpOff = 5 * arg + 2
    /\ counters.peak = SpOff
    /\ counters.ret = 1

\* handlercode2 on 205 pushes outside the array during its first descent
C29_Overflows ==
    /\ variant = "handlercode2" /\ arg = 205
    /\ status = "ub" /\ fault = "overflow" /\ counters.ret = 0

\* C30: when execute returns its result, sp is at the stack base in
\* wordcode, handlercode2, directthreaded and directthreaded2, one word above
\* it in directthreaded3, directthreaded4 and comboinstructions (the entry
\* argument stays), and three words above it in wordcode2 and wordcode3 (the
\* outermost frame is never popped).
ReturnOffset(v) ==
    IF v \in NativeRecursive THEN 3
    ELSE IF v \in NoCopy THEN 1
    ELSE 0

C30_ReturnStep ==
    (status = "running" /\ status' = "done") => SpOff' = ReturnOffset(variant)

C30_SpAtReturn == [][C30_ReturnStep]_vars

\* directthreaded4 has returned f(3) with the entry argument still on the
\* stack
C30_Witness ==
    /\ variant = "directthreaded4" /\ status = "done" /\ ~tainted
    /\ arg = 3 /\ result = 3
    /\ SpOff = 1 /\ Cell(stack, 0) = arg

\* C31: every stack word an instruction reads was written by the initial
\* pushes or by an earlier instruction of the same call of execute; a word
\* left over from before the call is never read.
C31_ReadsWritten ==
    (status = "running")
        => \A a \in StackReads : InStack(a) /\ peek(M, a) # Stale

\* no store puts the marker of a left-over word on the stack
StaleNeverStored ==
    [][\A i \in 1..Len(stack) : stack'[i] = Stale => stack[i] = Stale]_vars

\* directthreaded2 is about to copy the argument of a nested call while the
\* cells above the operands it has pushed still hold left-over words
C31_Witness ==
    /\ variant = "directthreaded2" /\ AtOp(CALL) /\ Len(calls) = 2
    /\ StackReads = {sp - 1}
    /\ peek(M, sp - 1) = arg - 3
    /\ peek(M, sp) = 1
    /\ peek(M, sp + 1) = Stale

\* C32: at every instruction boundary of a call of execute on the sample
\* program sp is at least bp + 3 + frame_size (bp + 3 in wordcode, wordcode2
\* and wordcode3: two control words and one local), and the words PRIM, JT
\* and RET pop lie at or above that address: no pop takes a saved control
\* word or a local slot of the current frame.
OperandBase ==
    IF variant \in SwitchBased THEN bp + 3 ELSE bp + 3 + frame_size(variant)

Pops ==
    IF CurOp = PRIM THEN 2
    ELSE IF CurOp \in {JT, RET} THEN 1
    ELSE 0

C32_OperandsAboveFrame ==
    (status = "running")
        => /\ sp >= OperandBase
           /\ sp - Pops >= OperandBase

\* handlercode2 in a nested frame is about to execute RET with only the
\* result above the local slot
C32_Witness ==
    /\ variant = "handlercode2" /\ AtOp(RET) /\ calls # << >>
    /\ sp - 1 = OperandBase
    /\ OperandBase = bp + 4

\* C33: whenever an opcode is fetched, ip is the index of an opcode word of
\* the program, never of an operand word and never outside the program; and
\* the saved ip of every frame other than the outermost is the index directly
\* after the operands of a CALL instruction, never the null sentinel.
ProgramOpcodes ==
    LET seq == OpcodesFrom(variant, code, 0)
    IN  { seq[k] : k \in 1..Len(seq) }

AfterCallIndices ==
    { i + Width(variant, CALL) :
        i \in { j \in ProgramOpcodes : OpOf(variant, code[j + 1]) = CALL } }

SavedIp(k) == FrameWord(stack, FrameBase(k), 1)

C33_IpOnOpcodes ==
    (status = "running")
        => /\ InCode(ip)
           /\ code = fib_code(variant)
           /\ IpOff \in ProgramOpcodes
           /\ \A k \in 1..Len(calls) : SavedIp(k) # NULL
           /\ { SavedIp(k) - CodeBase : k \in 1..Len(calls) } \subseteq AfterCallIndices

\* comboinstructions, two calls deep, fetches the opcode after a taken
\* branch; the two frames hold the return addresses of the two CALLs
C33_Witness ==
    /\ variant = "comboinstructions" /\ status = "running"
    /\ Len(calls) = 2
    /\ SavedIp(1) - CodeBase = 13
    /\ SavedIp(2) - CodeBase = 20
    /\ CurOp = CONST_1

\* C34: in wordcode2, wordcode3, handlercode2, directthreaded and
\* directthreaded2, CALL fnId argc copies the top argc words of the caller
\* into the first argc local slots of the callee's frame and leaves sp at the
\* first local slot + frame_size; the caller's argument words stay as they
\* were, below the callee's frame, until the matching RET discards them.
FirstLocal(b) == b + ControlWords(variant)

C34_CallStep ==
    (AtOp(CALL) /\ status' = "running")
        => /\ bp' = sp
           /\ sp' = FirstLocal(bp') + frame_size(variant)
           /\ \A j \in 0..(CallArgc - 1) :
                /\ InStack(sp - CallArgc + j)
                /\ FrameWord(stack', FirstLocal(bp'), j) = peek(M, sp - CallArgc + j)
                /\ FrameWord(stack', sp - CallArgc, j) = peek(M, sp - CallArgc + j)

\* the argument of every CALL not yet returned from is still where the caller
\* pushed it
ArgumentsKept ==
    \A k \in 1..Len(calls) :
        /\ calls[k].argc = 1
        /\ calls[k].sp - 1 < FrameBase(k)
        /\ peek(M, calls[k].sp - 1) = calls[k].arg

C34_ReturnStep ==
    (AtOp(RET) /\ calls # << >> /\ status' = "running")
        => /\ sp' = Caller.sp - Caller.argc + 1
           /\ FrameWord(stack', sp', -1) = top(M)

C34_Step ==
    (variant \in ArgCopying)
        => /\ C34_CallStep
           /\ C34_ReturnStep
           /\ (status' = "running") => ArgumentsKept'

C34_CallCopiesArguments == [][C34_Step]_vars

\* wordcode3, in the frame of its second nested call, has the copy of the
\* argument in its local slot and the caller's word below the frame
C34_Witness ==
    /\ variant = "wordcode3" /\ status = "running" /\ arg = 4
    /\ Len(calls) = 2 /\ IpOff = 0
    /\ sp = FirstLocal(bp) + 1
    /\ peek(M, FirstLocal(bp)) = 2
    /\ peek(M, Caller.sp - 1) = 2
    /\ Caller.sp - 1 < bp
====
